---- MODULE Spec2Model ----
(***************************************************************************)
(* A model of the Hack assembler of 06/assembler: the mnemonic tables      *)
(* (code_translator.rs), the symbol table (symbols.rs), the line parser    *)
(* (parser.rs) and the two-pass runner (runner.rs).                        *)
(*                                                                         *)
(* Text is modelled as TLA+ strings, one character per position; the       *)
(* regular expressions of the parser are modelled by the language they     *)
(* accept, the std library calls (read_line, trim, find, parse::<u16>,     *)
(* the 016b formatter) by what they compute.                               *)
(***************************************************************************)
EXTENDS Integers, Sequences, FiniteSets, TLC

VARIABLES
    file,          \* the bytes of the input file (fixed during a run)
    pc,            \* the position of run(): Initial .. Complete, or Failed
    reader,        \* Parser.reader: the BufReader over the input file
    raw_line,      \* Parser.raw_line
    command,       \* Parser.command
    symbol_table,  \* Parser.symbol_table: table, ram_address, rom_address
    out,           \* the lines written to the output writer, in order
    err,           \* the ErrorKind run() returned with, "" while there is none
    ret            \* the value returned by the last direct call of a unit-level operation

vars == <<file, pc, reader, raw_line, command, symbol_table, out, err, ret>>

----------------------------------------------------------------------------
(* Bounds of the model. *)

\* The number of chunks (lines) an input file of Spec is built from.
MaxLines == 3

\* The number of direct counter advances a unit-level run of SpecTable makes.
MaxIncs == 3

----------------------------------------------------------------------------
(* Characters and strings. *)

Char(s, i) == SubSeq(s, i, i)

Lower == {"a","b","c","d","e","f","g","h","i","j","k","l","m",
          "n","o","p","q","r","s","t","u","v","w","x","y","z"}

Upper == {"A","B","C","D","E","F","G","H","I","J","K","L","M",
          "N","O","P","Q","R","S","T","U","V","W","X","Y","Z"}

Digit == {"0","1","2","3","4","5","6","7","8","9"}

\* [[:alpha:]]
Alpha == Lower \cup Upper

\* [[:word:].$]
SymbolChar == Alpha \cup Digit \cup {"_", ".", "$"}

\* [[:alpha:]01\-!+&|]
CompChar == Alpha \cup {"0", "1", "-", "!", "+", "&", "|"}

\* The characters str::trim removes (those of them the model's inputs use).
WhiteSpace == {" ", "\t", "\n", "\r"}

\* s is a non-empty run of characters of class S: the regex [S]+ over all of s.
AllIn(s, S) == Len(s) > 0 /\ \A i \in 1..Len(s) : Char(s, i) \in S

\* str::find: the 1-based position of the first occurrence of pat in s, 0 if none.
Find(s, pat) ==
    LET hits == {i \in 1..(Len(s) - Len(pat) + 1) : SubSeq(s, i, i + Len(pat) - 1) = pat}
    IN  IF hits = {} THEN 0 ELSE CHOOSE i \in hits : \A j \in hits : i <= j

\* str::trim: s without its leading and trailing white space.
Trim(s) ==
    LET keep == {i \in 1..Len(s) : Char(s, i) \notin WhiteSpace}
    IN  IF keep = {} THEN ""
        ELSE SubSeq(s, CHOOSE i \in keep : \A j \in keep : i <= j,
                       CHOOSE i \in keep : \A j \in keep : i >= j)

DigitValue(c) ==
    CASE c = "0" -> 0 [] c = "1" -> 1 [] c = "2" -> 2 [] c = "3" -> 3 [] c = "4" -> 4
      [] c = "5" -> 5 [] c = "6" -> 6 [] c = "7" -> 7 [] c = "8" -> 8 [] c = "9" -> 9

U16Max == 65535

\* str::parse::<u16>: -1 for Err, the value otherwise.  An optional leading +, then
\* decimal digits only; a value above u16::MAX is an error.
RECURSIVE ParseDigits(_, _)
ParseDigits(s, acc) ==
    IF s = "" THEN acc
    ELSE IF Head(s) \notin Digit THEN -1
    ELSE LET v == acc * 10 + DigitValue(Head(s))
         IN  IF v > U16Max THEN -1 ELSE ParseDigits(Tail(s), v)

ParseU16(s) ==
    IF s = "" THEN -1
    ELSE IF Head(s) = "+" THEN (IF Len(s) = 1 THEN -1 ELSE ParseDigits(Tail(s), 0))
    ELSE ParseDigits(s, 0)

\* format!("{:016b}", w) for a u16: sixteen binary digits, most significant first.
RECURSIVE Bits(_, _)
Bits(w, n) ==
    IF n = 0 THEN ""
    ELSE Bits(w \div 2, n - 1) \o (IF w % 2 = 1 THEN "1" ELSE "0")

Format016b(w) == Bits(w, 16)

----------------------------------------------------------------------------
(* error.rs: Result and the error kinds the core returns. *)

Ok(v) == [ok |-> TRUE, val |-> v, err |-> ""]

Err(kind) == [ok |-> FALSE, val |-> 0, err |-> kind]

----------------------------------------------------------------------------
(* code_translator.rs: the mnemonic tables.  b << n is b * 2^n. *)

\* dest with the patterns not shifted to bits 5-3 (as in its doc comment).
dest_unshifted(mnemonic) ==
    CASE mnemonic = "null" -> Ok(0)
      [] mnemonic = "M"    -> Ok(1)
      [] mnemonic = "D"    -> Ok(2)
      [] mnemonic = "MD"   -> Ok(3)
      [] mnemonic = "A"    -> Ok(4)
      [] mnemonic = "AM"   -> Ok(5)
      [] mnemonic = "AD"   -> Ok(6)
      [] mnemonic = "AMD"  -> Ok(7)
      [] OTHER             -> Err("InvalidSyntax")

dest(mnemonic) ==
    CASE mnemonic = "null" -> Ok(0 * 8)
      [] mnemonic = "M"    -> Ok(1 * 8)
      [] mnemonic = "D"    -> Ok(2 * 8)
      [] mnemonic = "MD"   -> Ok(3 * 8)
      [] mnemonic = "A"    -> Ok(4 * 8)
      [] mnemonic = "AM"   -> Ok(5 * 8)
      [] mnemonic = "AD"   -> Ok(6 * 8)
      [] mnemonic = "AMD"  -> Ok(7 * 8)
      [] OTHER             -> Err("InvalidSyntax")

comp(mnemonic) ==
    CASE mnemonic = "0"   -> Ok(42 * 64)    \* 0b0101010
      [] mnemonic = "1"   -> Ok(63 * 64)    \* 0b0111111
      [] mnemonic = "-1"  -> Ok(58 * 64)    \* 0b0111010
      [] mnemonic = "D"   -> Ok(12 * 64)    \* 0b0001100
      [] mnemonic = "A"   -> Ok(48 * 64)    \* 0b0110000
      [] mnemonic = "!D"  -> Ok(13 * 64)    \* 0b0001101
      [] mnemonic = "!A"  -> Ok(49 * 64)    \* 0b0110001
      [] mnemonic = "-D"  -> Ok(15 * 64)    \* 0b0001111
      [] mnemonic = "-A"  -> Ok(51 * 64)    \* 0b0110011
      [] mnemonic = "D+1" -> Ok(31 * 64)    \* 0b0011111
      [] mnemonic = "A+1" -> Ok(55 * 64)    \* 0b0110111
      [] mnemonic = "D-1" -> Ok(14 * 64)    \* 0b0001110
      [] mnemonic = "A-1" -> Ok(50 * 64)    \* 0b0110010
      [] mnemonic = "D+A" -> Ok(2 * 64)     \* 0b0000010
      [] mnemonic = "D-A" -> Ok(19 * 64)    \* 0b0010011
      [] mnemonic = "A-D" -> Ok(7 * 64)     \* 0b0000111
      [] mnemonic = "D&A" -> Ok(0 * 64)     \* 0b0000000
      [] mnemonic = "D|A" -> Ok(21 * 64)    \* 0b0010101
      [] mnemonic = "M"   -> Ok(112 * 64)   \* 0b1110000
      [] mnemonic = "!M"  -> Ok(113 * 64)   \* 0b1110001
      [] mnemonic = "-M"  -> Ok(115 * 64)   \* 0b1110011
      [] mnemonic = "M+1" -> Ok(119 * 64)   \* 0b1110111
      [] mnemonic = "M-1" -> Ok(114 * 64)   \* 0b1110010
      [] mnemonic = "D+M" -> Ok(66 * 64)    \* 0b1000010
      [] mnemonic = "D-M" -> Ok(83 * 64)    \* 0b1010011
      [] mnemonic = "M-D" -> Ok(71 * 64)    \* 0b1000111
      [] mnemonic = "D&M" -> Ok(64 * 64)    \* 0b1000000
      [] mnemonic = "D|M" -> Ok(85 * 64)    \* 0b1010101
      [] OTHER            -> Err("InvalidSyntax")

\* jump with a default arm that takes an unknown mnemonic for no jump.
jump_default_null(mnemonic) ==
    CASE mnemonic = "JGT"  -> Ok(1)
      [] mnemonic = "JEQ"  -> Ok(2)
      [] mnemonic = "JGE"  -> Ok(3)
      [] mnemonic = "JLT"  -> Ok(4)
      [] mnemonic = "JNE"  -> Ok(5)
      [] mnemonic = "JLE"  -> Ok(6)
      [] mnemonic = "JMP"  -> Ok(7)
      [] OTHER             -> Ok(0)

jump(mnemonic) ==
    CASE mnemonic = "null" -> Ok(0)
      [] mnemonic = "JGT"  -> Ok(1)
      [] mnemonic = "JEQ"  -> Ok(2)
      [] mnemonic = "JGE"  -> Ok(3)
      [] mnemonic = "JLT"  -> Ok(4)
      [] mnemonic = "JNE"  -> Ok(5)
      [] mnemonic = "JLE"  -> Ok(6)
      [] mnemonic = "JMP"  -> Ok(7)
      [] OTHER             -> Err("InvalidSyntax")

----------------------------------------------------------------------------
(* symbols.rs: the symbol table. *)

\* The highest RAM address a variable may take (the test of inc_ram_address).
RamTop == 16383

\* The counters are u16.
U16Modulus == 65536

predefined_symbols ==
    [s \in {"SP", "LCL", "ARG", "THIS", "THAT",
            "R0", "R1", "R2", "R3", "R4", "R5", "R6", "R7",
            "R8", "R9", "R10", "R11", "R12", "R13", "R14", "R15",
            "SCREEN", "KBD"} |->
        CASE s = "SP" -> 0 [] s = "LCL" -> 1 [] s = "ARG" -> 2
          [] s = "THIS" -> 3 [] s = "THAT" -> 4
          [] s = "R0" -> 0 [] s = "R1" -> 1 [] s = "R2" -> 2 [] s = "R3" -> 3
          [] s = "R4" -> 4 [] s = "R5" -> 5 [] s = "R6" -> 6 [] s = "R7" -> 7
          [] s = "R8" -> 8 [] s = "R9" -> 9 [] s = "R10" -> 10 [] s = "R11" -> 11
          [] s = "R12" -> 12 [] s = "R13" -> 13 [] s = "R14" -> 14 [] s = "R15" -> 15
          [] s = "SCREEN" -> 16384 [] s = "KBD" -> 24576]

\* SymbolTable::new
SymbolTableNew ==
    [table |-> predefined_symbols, ram_address |-> 16, rom_address |-> 0]

\* SymbolTable::get_address: -1 for None.
get_address(st, symbol) ==
    IF symbol \in DOMAIN st.table THEN st.table[symbol] ELSE -1

\* inc_ram_address that leaves the counter where it is.
inc_ram_address_stuck(st) ==
    IF st.ram_address = RamTop
    THEN [st |-> st, res |-> Err("RAMFull")]
    ELSE [st |-> st, res |-> Ok(0)]

\* SymbolTable::inc_ram_address: the table after the call and its result.
inc_ram_address(st) ==
    IF st.ram_address = RamTop
    THEN [st |-> st, res |-> Err("RAMFull")]
    ELSE [st |-> [st EXCEPT !.ram_address = st.ram_address + 1], res |-> Ok(0)]

\* SymbolTable::inc_rom_address.  The u16 addition wraps in a release build
\* (a debug build panics on the overflow).
inc_rom_address(st) ==
    [st EXCEPT !.rom_address = (st.rom_address + 1) % U16Modulus]

\* insert that writes first and tells from the old entry that the symbol existed.
insert_then_check(st, symbol, address) ==
    [st  |-> [st EXCEPT !.table = (symbol :> address) @@ st.table],
     res |-> IF symbol \in DOMAIN st.table THEN Err("SymbolExists") ELSE Ok(address)]

\* insert without the test for an existing entry.
insert_overwriting(st, symbol, address) ==
    [st  |-> [st EXCEPT !.table = (symbol :> address) @@ st.table],
     res |-> Ok(address)]

\* SymbolTable::insert
insert(st, symbol, address) ==
    IF symbol \in DOMAIN st.table
    THEN [st |-> st, res |-> Err("SymbolExists")]
    ELSE [st |-> [st EXCEPT !.table = (symbol :> address) @@ st.table],
          res |-> Ok(address)]

\* SymbolTable::insert_variable
insert_variable(st, symbol) == insert(st, symbol, st.ram_address)

\* SymbolTable::insert_label
insert_label(st, symbol) == insert(st, symbol, st.rom_address)

----------------------------------------------------------------------------
(* parser.rs: the line source. *)

\* The capacity of the BufReader that Parser::new builds (std's default).
BufCapacity == 8192

\* Parser::new: the reader over the file, nothing read and nothing buffered.
\* fpos is the offset of the File, buf the buffered bytes not yet consumed.
ReaderNew == [fpos |-> 0, buf |-> ""]

\* BufReader::fill_buf: when the buffer is used up, one read of the File.
fill_buf(r) ==
    IF r.buf # "" THEN r
    ELSE LET rest == Len(file) - r.fpos
             n    == IF rest < BufCapacity THEN rest ELSE BufCapacity
         IN  [fpos |-> r.fpos + n, buf |-> SubSeq(file, r.fpos + 1, r.fpos + n)]

\* BufRead::read_line (read_until "\n"): the reader after the call and the bytes
\* appended to the line; an empty result is the end of the file.
RECURSIVE read_until(_, _)
read_until(r, acc) ==
    LET f  == fill_buf(r)
        nl == Find(f.buf, "\n")
    IN  IF f.buf = "" THEN [reader |-> f, line |-> acc]
        ELSE IF nl > 0
        THEN [reader |-> [f EXCEPT !.buf = SubSeq(f.buf, nl + 1, Len(f.buf))],
              line   |-> acc \o SubSeq(f.buf, 1, nl)]
        ELSE read_until([f EXCEPT !.buf = ""], acc \o f.buf)

read_line(r) == read_until(r, "")

----------------------------------------------------------------------------
(* parser.rs: the classifier and the field accessors. *)

None == [type |-> "None", text |-> ""]

Some(type, text) == [type |-> type, text |-> text]

\* re_a: ^@
re_a(cmd) == Len(cmd) > 0 /\ Head(cmd) = "@"

\* re_c, first pattern: dest=comp
re_c_dest_comp(cmd) ==
    \E i \in 1..Len(cmd) :
        /\ Char(cmd, i) = "="
        /\ AllIn(SubSeq(cmd, 1, i - 1), Alpha)
        /\ AllIn(SubSeq(cmd, i + 1, Len(cmd)), CompChar)

\* re_c, second pattern: comp;jump
re_c_comp_jump(cmd) ==
    \E i \in 1..Len(cmd) :
        /\ Char(cmd, i) = ";"
        /\ AllIn(SubSeq(cmd, 1, i - 1), CompChar)
        /\ AllIn(SubSeq(cmd, i + 1, Len(cmd)), Alpha)

\* re_c, third pattern: dest=comp;jump
re_c_dest_comp_jump(cmd) ==
    \E i \in 1..Len(cmd) : \E j \in (i + 1)..Len(cmd) :
        /\ Char(cmd, i) = "="
        /\ Char(cmd, j) = ";"
        /\ AllIn(SubSeq(cmd, 1, i - 1), Alpha)
        /\ AllIn(SubSeq(cmd, i + 1, j - 1), CompChar)
        /\ AllIn(SubSeq(cmd, j + 1, Len(cmd)), Alpha)

re_c(cmd) == re_c_dest_comp(cmd) \/ re_c_comp_jump(cmd) \/ re_c_dest_comp_jump(cmd)

\* re_l: ^\([[:word:].$]+\)$
re_l(cmd) ==
    /\ Len(cmd) >= 3
    /\ Head(cmd) = "("
    /\ Char(cmd, Len(cmd)) = ")"
    /\ AllIn(SubSeq(cmd, 2, Len(cmd) - 1), SymbolChar)

\* Parser::set_command_type: the command and the result.
set_command_type(cmd) ==
    IF re_a(cmd) THEN [command |-> Some("ACommand", cmd), res |-> Ok(0)]
    ELSE IF re_c(cmd) THEN [command |-> Some("CCommand", cmd), res |-> Ok(0)]
    ELSE IF re_l(cmd) THEN [command |-> Some("LCommand", cmd), res |-> Ok(0)]
    ELSE [command |-> None, res |-> Err("InvalidSyntax")]

\* set_command that trims the line with its comment still on it.
set_command_keeping_comment(raw) ==
    LET cmd == Trim(raw)
    IN  IF cmd = "" THEN [command |-> None, res |-> Ok(0)]
        ELSE set_command_type(cmd)

\* Parser::set_command
set_command(raw) ==
    LET at             == Find(raw, "//")
        comment_offset == IF at = 0 THEN Len(raw) ELSE at - 1
        cmd            == Trim(SubSeq(raw, 1, comment_offset))
    IN  IF cmd = "" THEN [command |-> None, res |-> Ok(0)]
        ELSE set_command_type(cmd)

\* Parser::advance: the reader, raw line and command after the call, and the
\* result (the bytes read, or the error of set_command).
advance(r) ==
    LET rd == read_line(r)
        sc == set_command(rd.line)
    IN  [reader   |-> rd.reader,
         raw_line |-> rd.line,
         command  |-> sc.command,
         res      |-> IF sc.res.ok THEN Ok(Len(rd.line)) ELSE sc.res]

\* The regex of symbol() for an A-command: ^@(?P<symbol>[[:word:].$]+)$
re_a_symbol(cmd) ==
    Len(cmd) >= 2 /\ Head(cmd) = "@" /\ AllIn(Tail(cmd), SymbolChar)

\* symbol() with a last arm that returns the text of any other command.
symbol_of_any_command(c) ==
    IF c.type = "ACommand"
    THEN Ok(IF Len(c.text) >= 2 /\ Head(c.text) = "@" /\ AllIn(Tail(c.text), SymbolChar)
            THEN Tail(c.text) ELSE c.text)
    ELSE IF c.type = "LCommand"
    THEN Ok(IF re_l(c.text) THEN SubSeq(c.text, 2, Len(c.text) - 1) ELSE c.text)
    ELSE Ok(c.text)

\* Parser::symbol.  Regex::replace leaves a text the regex does not match as it is.
symbol(c) ==
    IF c.type = "ACommand"
    THEN Ok(IF re_a_symbol(c.text) THEN Tail(c.text) ELSE c.text)
    ELSE IF c.type = "LCommand"
    THEN Ok(IF re_l(c.text) THEN SubSeq(c.text, 2, Len(c.text) - 1) ELSE c.text)
    ELSE Err("InvalidCmdType")

\* An Option<String> inside a Result: val is None or Some("text", the text).
\* Parser::dest: the capture of ^(?P<dest>[[:alpha:]]+)=
parser_dest(c) ==
    IF c.type # "CCommand" THEN Err("InvalidCmdType")
    ELSE LET hits == {i \in 1..Len(c.text) :
                        Char(c.text, i) = "=" /\ AllIn(SubSeq(c.text, 1, i - 1), Alpha)}
         IN  IF hits = {} THEN Ok(None)
             ELSE Ok(Some("text", SubSeq(c.text, 1, (CHOOSE i \in hits : TRUE) - 1)))

\* The longest prefix of s made of characters of class S.
Run(s, S) ==
    LET stop == {i \in 1..Len(s) : Char(s, i) \notin S}
    IN  IF stop = {} THEN s
        ELSE SubSeq(s, 1, (CHOOSE i \in stop : \A j \in stop : i <= j) - 1)

\* Parser::comp with the second alternative of the regex only: the text after =.
parser_comp_after_equals(c) ==
    IF c.type # "CCommand" THEN Err("InvalidCmdType")
    ELSE LET t      == c.text
             eqs    == {i \in 1..Len(t) :
                          Char(t, i) = "=" /\ Run(SubSeq(t, i + 1, Len(t)), CompChar) # ""}
             first  == CHOOSE i \in eqs : \A j \in eqs : i <= j
         IN  IF eqs = {} THEN Ok(None)
             ELSE Ok(Some("text", Run(SubSeq(t, first + 1, Len(t)), CompChar)))

\* Parser::comp: the capture of
\*   (^(?P<comp_0>[[:alpha:]01\-!+&|]+);) | (=(?P<comp_1>[[:alpha:]01\-!+&|]+);?)
\* at the leftmost place the regex matches.
parser_comp(c) ==
    IF c.type # "CCommand" THEN Err("InvalidCmdType")
    ELSE LET t      == c.text
             comp_0 == Run(t, CompChar)
             eqs    == {i \in 1..Len(t) :
                          Char(t, i) = "=" /\ Run(SubSeq(t, i + 1, Len(t)), CompChar) # ""}
             first  == CHOOSE i \in eqs : \A j \in eqs : i <= j
         IN  IF comp_0 # "" /\ Len(comp_0) < Len(t) /\ Char(t, Len(comp_0) + 1) = ";"
             THEN Ok(Some("text", comp_0))
             ELSE IF eqs = {} THEN Ok(None)
             ELSE Ok(Some("text", Run(SubSeq(t, first + 1, Len(t)), CompChar)))

\* Parser::jump: the capture of ;(?P<jump>[[:alpha:]]+)$
parser_jump(c) ==
    IF c.type # "CCommand" THEN Err("InvalidCmdType")
    ELSE LET hits == {i \in 1..Len(c.text) :
                        Char(c.text, i) = ";" /\ AllIn(SubSeq(c.text, i + 1, Len(c.text)), Alpha)}
         IN  IF hits = {} THEN Ok(None)
             ELSE Ok(Some("text", SubSeq(c.text, (CHOOSE i \in hits : \A j \in hits : i <= j) + 1,
                                         Len(c.text))))

\* reset without the seek.
reset_without_seek(r) == r

\* Parser::reset: the File is sought to its start; the BufReader's buffer is not
\* discarded (the seek goes to the File through get_mut).
reset(r) == [r EXCEPT !.fpos = 0]

----------------------------------------------------------------------------
(* runner.rs: the two passes. *)

\* process_l_cmd that records no label.
process_l_cmd_no_labels(c, st) ==
    IF c.type \notin {"LCommand", "None"}
    THEN [st |-> inc_rom_address(st), res |-> Ok(0)]
    ELSE [st |-> st, res |-> Ok(0)]

\* process_l_cmd with the counter advanced for every command, a label included.
process_l_cmd_counting_labels(c, st) ==
    IF c.type = "LCommand"
    THEN LET ins == insert_label(st, symbol(c).val)
         IN  [st |-> inc_rom_address(ins.st), res |-> ins.res]
    ELSE IF c.type # "None"
    THEN [st |-> inc_rom_address(st), res |-> Ok(0)]
    ELSE [st |-> st, res |-> Ok(0)]

\* process_l_cmd that also allocates a variable for a new symbol of an A-command.
process_l_cmd_with_variables(c, st) ==
    IF c.type = "LCommand"
    THEN IF symbol(c).ok THEN insert_label(st, symbol(c).val)
         ELSE [st |-> st, res |-> Err("panic")]
    ELSE IF c.type = "ACommand" /\ ParseU16(symbol(c).val) = -1
                                /\ get_address(st, symbol(c).val) = -1
    THEN [st  |-> inc_rom_address(inc_ram_address(insert_variable(st, symbol(c).val).st).st),
          res |-> Ok(0)]
    ELSE IF c.type # "None"
    THEN [st |-> inc_rom_address(st), res |-> Ok(0)]
    ELSE [st |-> st, res |-> Ok(0)]

\* process_l_cmd: the symbol table after the line and the result.  The unwrap of
\* symbol() panics on an Err: the run ends there, which the result "panic" stands for.
process_l_cmd(c, st) ==
    IF c.type = "LCommand"
    THEN IF symbol(c).ok THEN insert_label(st, symbol(c).val)
         ELSE [st |-> st, res |-> Err("panic")]
    ELSE IF c.type # "None"
    THEN [st |-> inc_rom_address(st), res |-> Ok(0)]
    ELSE [st |-> st, res |-> Ok(0)]

\* translate_a_cmd without the lookup: every symbol is inserted as a variable.
translate_a_cmd_without_lookup(c, st) ==
    LET sym == symbol(c)
        lit == ParseU16(sym.val)
        ins == insert_variable(st, sym.val)
        inc == inc_ram_address(ins.st)
    IN  IF ~sym.ok THEN [st |-> st, res |-> sym]
        ELSE IF lit # -1 THEN [st |-> st, res |-> Ok(lit)]
        ELSE IF ~ins.res.ok THEN ins
        ELSE IF ~inc.res.ok THEN inc
        ELSE [st |-> inc.st, res |-> ins.res]

\* translate_a_cmd without the parse of a literal: every operand is a symbol.
translate_a_cmd_no_literals(c, st) ==
    LET sym == symbol(c)
        got == get_address(st, sym.val)
        ins == insert_variable(st, sym.val)
        inc == inc_ram_address(ins.st)
    IN  IF ~sym.ok THEN [st |-> st, res |-> sym]
        ELSE IF got # -1 THEN [st |-> st, res |-> Ok(got)]
        ELSE IF ~ins.res.ok THEN ins
        ELSE IF ~inc.res.ok THEN inc
        ELSE [st |-> inc.st, res |-> ins.res]

\* translate_a_cmd: the symbol table after the line and the word (or the error).
translate_a_cmd(c, st) ==
    LET sym == symbol(c)
        lit == ParseU16(sym.val)
        got == get_address(st, sym.val)
        ins == insert_variable(st, sym.val)
        inc == inc_ram_address(ins.st)
    IN  IF ~sym.ok THEN [st |-> st, res |-> sym]
        ELSE IF lit # -1 THEN [st |-> st, res |-> Ok(lit)]
        ELSE IF got # -1 THEN [st |-> st, res |-> Ok(got)]
        ELSE IF ~ins.res.ok THEN ins
        ELSE IF ~inc.res.ok THEN inc
        ELSE [st |-> inc.st, res |-> ins.res]

\* translate_c_cmd with the opcode bits one hex digit short (0b1110_0000_0000).
translate_c_cmd_short_opcode(c) ==
    LET d == dest(parser_dest(c).val.text)
        k == comp(parser_comp(c).val.text)
        j == jump(parser_jump(c).val.text)
    IN  IF parser_dest(c).val # None /\ ~d.ok THEN d
        ELSE IF ~k.ok THEN k
        ELSE IF parser_jump(c).val # None /\ ~j.ok THEN j
        ELSE Ok((3584 + (IF parser_dest(c).val = None THEN 0 ELSE d.val) + k.val
                      + (IF parser_jump(c).val = None THEN 0 ELSE j.val)) % U16Modulus)

\* translate_c_cmd that leaves the jump field out of the sum.
translate_c_cmd_without_jump(c) ==
    LET pd == parser_dest(c)
        pk == parser_comp(c)
        pj == parser_jump(c)
        d  == IF ~pd.ok THEN pd ELSE IF pd.val = None THEN Ok(0) ELSE dest(pd.val.text)
        k  == IF ~pk.ok THEN pk ELSE IF pk.val = None THEN Ok(0) ELSE comp(pk.val.text)
        j  == IF ~pj.ok THEN pj ELSE IF pj.val = None THEN Ok(0) ELSE jump(pj.val.text)
    IN  IF ~d.ok THEN d
        ELSE IF ~k.ok THEN k
        ELSE IF ~j.ok THEN j
        ELSE Ok((57344 + d.val + k.val) % U16Modulus)

\* translate_c_cmd: the word (or the first error, in the order dest, comp, jump).
\* Each field is the accessor of the parser, then the mnemonic table for a field
\* that is present, 0 for one that is absent.
translate_c_cmd(c) ==
    LET pd == parser_dest(c)
        pk == parser_comp(c)
        pj == parser_jump(c)
        d  == IF ~pd.ok THEN pd ELSE IF pd.val = None THEN Ok(0) ELSE dest(pd.val.text)
        k  == IF ~pk.ok THEN pk ELSE IF pk.val = None THEN Ok(0) ELSE comp(pk.val.text)
        j  == IF ~pj.ok THEN pj ELSE IF pj.val = None THEN Ok(0) ELSE jump(pj.val.text)
    IN  IF ~d.ok THEN d
        ELSE IF ~k.ok THEN k
        ELSE IF ~j.ok THEN j
        ELSE Ok((57344 + d.val + k.val + j.val) % U16Modulus)

\* translate_line that takes a label line for an address instruction.
translate_line_with_labels(c, st) ==
    IF c.type \in {"ACommand", "LCommand"} THEN translate_a_cmd(c, st)
    ELSE IF c.type = "CCommand" THEN [st |-> st, res |-> translate_c_cmd(c)]
    ELSE [st |-> st, res |-> Ok(-1)]

\* translate_line with the two arms exchanged.
translate_line_arms_exchanged(c, st) ==
    IF c.type = "CCommand" THEN translate_a_cmd(c, st)
    ELSE IF c.type = "ACommand" THEN [st |-> st, res |-> translate_c_cmd(c)]
    ELSE [st |-> st, res |-> Ok(-1)]

\* translate_line: the symbol table after the line and the word, -1 for a line
\* that is neither an A- nor a C-command.
translate_line(c, st) ==
    IF c.type = "ACommand" THEN translate_a_cmd(c, st)
    ELSE IF c.type = "CCommand" THEN [st |-> st, res |-> translate_c_cmd(c)]
    ELSE [st |-> st, res |-> Ok(-1)]

\* run, lines 19-26: the parser is built, the output file created.
StartRun ==
    /\ pc = "Initial"
    /\ pc' = "Pass1Scanning"
    /\ UNCHANGED <<file, reader, raw_line, command, symbol_table, out, err, ret>>

\* first_pass that looks for labels only and passes over a line advance rejects.
FirstPassStepPastSyntaxErrors ==
    /\ pc = "Pass1Scanning"
    /\ LET a == advance(reader)
           p == process_l_cmd(a.command, symbol_table)
       IN  /\ reader' = a.reader
           /\ raw_line' = a.raw_line
           /\ command' = a.command
           /\ IF ~a.res.ok
              THEN UNCHANGED <<pc, err, symbol_table>>
              ELSE IF a.res.val = 0
              THEN pc' = "Pass1Done" /\ UNCHANGED <<err, symbol_table>>
              ELSE /\ symbol_table' = p.st
                   /\ IF p.res.ok
                      THEN UNCHANGED <<pc, err>>
                      ELSE pc' = "Failed" /\ err' = p.res.err
    /\ UNCHANGED <<file, out, ret>>

\* first_pass that leaves its loop when a line holds no command.
FirstPassStepEndingOnBlank ==
    /\ pc = "Pass1Scanning"
    /\ LET a == advance(reader)
           p == process_l_cmd(a.command, symbol_table)
       IN  /\ reader' = a.reader
           /\ raw_line' = a.raw_line
           /\ command' = a.command
           /\ IF ~a.res.ok
              THEN pc' = "Failed" /\ err' = a.res.err /\ UNCHANGED symbol_table
              ELSE IF a.res.val = 0 \/ a.command = None
              THEN pc' = "Pass1Done" /\ UNCHANGED <<err, symbol_table>>
              ELSE /\ symbol_table' = p.st
                   /\ IF p.res.ok
                      THEN UNCHANGED <<pc, err>>
                      ELSE pc' = "Failed" /\ err' = p.res.err
    /\ UNCHANGED <<file, out, ret>>

\* One turn of the loop of first_pass.
FirstPassStep ==
    /\ pc = "Pass1Scanning"
    /\ LET a == advance(reader)
           p == process_l_cmd(a.command, symbol_table)
       IN  /\ reader' = a.reader
           /\ raw_line' = a.raw_line
           /\ command' = a.command
           /\ IF ~a.res.ok
              THEN pc' = "Failed" /\ err' = a.res.err /\ UNCHANGED symbol_table
              ELSE IF a.res.val = 0
              THEN pc' = "Pass1Done" /\ UNCHANGED <<err, symbol_table>>
              ELSE /\ symbol_table' = p.st
                   /\ IF p.res.ok
                      THEN UNCHANGED <<pc, err>>
                      ELSE pc' = "Failed" /\ err' = p.res.err
    /\ UNCHANGED <<file, out, ret>>

\* run, line 30: parser.reset().
Reset ==
    /\ pc = "Pass1Done"
    /\ pc' = "Pass2Translating"
    /\ reader' = reset(reader)
    /\ raw_line' = ""
    /\ command' = None
    /\ UNCHANGED <<file, symbol_table, out, err, ret>>

\* second_pass that drops the error of translate_line and goes on to the next line.
SecondPassStepPastErrors ==
    /\ pc = "Pass2Translating"
    /\ LET a == advance(reader)
           t == translate_line(a.command, symbol_table)
       IN  /\ reader' = a.reader
           /\ raw_line' = a.raw_line
           /\ command' = a.command
           /\ IF ~a.res.ok
              THEN pc' = "Failed" /\ err' = a.res.err /\ UNCHANGED <<symbol_table, out>>
              ELSE IF a.res.val = 0
              THEN pc' = "Complete" /\ UNCHANGED <<err, symbol_table, out>>
              ELSE /\ symbol_table' = t.st
                   /\ IF ~t.res.ok \/ t.res.val = -1
                      THEN UNCHANGED <<pc, err, out>>
                      ELSE out' = Append(out, Format016b(t.res.val)) /\ UNCHANGED <<pc, err>>
    /\ UNCHANGED <<file, ret>>

\* One turn of the loop of second_pass; at the end of the input, the flush and
\* the Ok(()) of run.  An element of out is the text of one writeln!, without
\* the line feed that ends it.
SecondPassStep ==
    /\ pc = "Pass2Translating"
    /\ LET a == advance(reader)
           t == translate_line(a.command, symbol_table)
       IN  /\ reader' = a.reader
           /\ raw_line' = a.raw_line
           /\ command' = a.command
           /\ IF ~a.res.ok
              THEN pc' = "Failed" /\ err' = a.res.err /\ UNCHANGED <<symbol_table, out>>
              ELSE IF a.res.val = 0
              THEN pc' = "Complete" /\ UNCHANGED <<err, symbol_table, out>>
              ELSE /\ symbol_table' = t.st
                   /\ IF ~t.res.ok
                      THEN pc' = "Failed" /\ err' = t.res.err /\ UNCHANGED out
                      ELSE IF t.res.val = -1
                      THEN UNCHANGED <<pc, err, out>>
                      ELSE out' = Append(out, Format016b(t.res.val)) /\ UNCHANGED <<pc, err>>
    /\ UNCHANGED <<file, ret>>

----------------------------------------------------------------------------
(* The input files of the model. *)

\* The pieces the input files of Spec are built from: an address instruction with
\* a literal, with a label, with two variables and with a predefined symbol,
\* compute instructions of the three shapes, a label, a comment line, a line that
\* is no instruction, a compute instruction with an unknown mnemonic, and a
\* last line that no line feed ends.
Chunks ==
    { "@2\n", "@LOOP\n", "@i\n", "@j\n", "@R1\n",
      "D=A\n", "0;JMP\n", "AM=M-1;JNE",
      "(LOOP)\n", " // c\n", "foo\n", "D=Q\n" }

RECURSIVE Concat(_)
Concat(p) == IF p = <<>> THEN "" ELSE Head(p) \o Concat(Tail(p))

Files == {Concat(p) : p \in UNION {[1..n -> Chunks] : n \in 0..MaxLines}}

\* Nothing has been called on the parser yet.
RetNew == [op |-> "new", arg |-> "", res |-> Ok(0)]

ParserInit ==
    /\ reader = ReaderNew
    /\ raw_line = ""
    /\ command = None
    /\ symbol_table = SymbolTableNew

Init ==
    /\ file \in Files
    /\ pc = "Initial"
    /\ ParserInit
    /\ out = <<>>
    /\ err = ""
    /\ ret = RetNew

Next == StartRun \/ FirstPassStep \/ Reset \/ SecondPassStep

Spec == Init /\ [][Next]_vars

----------------------------------------------------------------------------
(* The symbol table on its own: the operations of the parser on its symbol   *)
(* table, called directly and in any order, as the tests of symbols.rs and   *)
(* try_second_pass call them.                                                *)

\* The names the direct calls use: two new names and two predefined ones.
Names == {"x", "y", "R0", "KBD"}

\* Parser::get_symbol_address
GetSymbolAddress(n) ==
    /\ pc = "Initial"
    /\ ret' = [op |-> "get_address", arg |-> n, res |-> Ok(get_address(symbol_table, n))]
    /\ UNCHANGED <<file, pc, reader, raw_line, command, symbol_table, out, err>>

\* Parser::insert_label
InsertLabel(n) ==
    /\ pc = "Initial"
    /\ LET r == insert_label(symbol_table, n)
       IN  /\ symbol_table' = r.st
           /\ ret' = [op |-> "insert_label", arg |-> n, res |-> r.res]
    /\ UNCHANGED <<file, pc, reader, raw_line, command, out, err>>

\* Parser::insert_variable
InsertVariable(n) ==
    /\ pc = "Initial"
    /\ LET r == insert_variable(symbol_table, n)
       IN  /\ symbol_table' = r.st
           /\ ret' = [op |-> "insert_variable", arg |-> n, res |-> r.res]
    /\ UNCHANGED <<file, pc, reader, raw_line, command, out, err>>

\* Parser::inc_ram_address
IncRamAddress ==
    /\ pc = "Initial"
    /\ LET r == inc_ram_address(symbol_table)
       IN  /\ symbol_table' = r.st
           /\ ret' = [op |-> "inc_ram_address", arg |-> "", res |-> r.res]
    /\ UNCHANGED <<file, pc, reader, raw_line, command, out, err>>

\* Parser::inc_rom_address
IncRomAddress ==
    /\ pc = "Initial"
    /\ symbol_table' = inc_rom_address(symbol_table)
    /\ ret' = [op |-> "inc_rom_address", arg |-> "", res |-> Ok(0)]
    /\ UNCHANGED <<file, pc, reader, raw_line, command, out, err>>

\* At most MaxIncs advances of each counter.
BoundedIncRam == symbol_table.ram_address < 16 + MaxIncs /\ IncRamAddress

BoundedIncRom == symbol_table.rom_address < MaxIncs /\ IncRomAddress

InitTable ==
    /\ file = ""
    /\ pc = "Initial"
    /\ ParserInit
    /\ out = <<>>
    /\ err = ""
    /\ ret = RetNew

NextTable ==
    \/ \E n \in Names : GetSymbolAddress(n)
    \/ \E n \in Names : InsertLabel(n)
    \/ \E n \in Names : InsertVariable(n)
    \/ BoundedIncRam
    \/ BoundedIncRom

SpecTable == InitTable /\ [][NextTable]_vars

\* A run on a parser whose variable counter was advanced before, by direct calls
\* of inc_ram_address (the loop of the test inc_ram_address_beyond_max).
RamFiles == {"@a\n", "@a\n@b\n"}

InitRam ==
    /\ file \in RamFiles
    /\ pc = "Initial"
    /\ ParserInit
    /\ out = <<>>
    /\ err = ""
    /\ ret = RetNew

NextRam == IncRamAddress \/ StartRun \/ FirstPassStep \/ Reset \/ SecondPassStep

SpecRam == InitRam /\ [][NextRam]_vars

----------------------------------------------------------------------------
(* The mnemonic tables on their own, and runs over every compute instruction. *)

\* The patterns the tests check_dest, check_comp and check_jump expect, as the
\* binary literals are written there.
check_dest ==
    [m \in {"null", "M", "D", "MD", "A", "AM", "AD", "AMD"} |->
        CASE m = "null" -> "000000" [] m = "M"  -> "001000" [] m = "D"  -> "010000"
          [] m = "MD"   -> "011000" [] m = "A"  -> "100000" [] m = "AM" -> "101000"
          [] m = "AD"   -> "110000" [] m = "AMD" -> "111000"]

check_comp ==
    [m \in {"0", "1", "-1", "D", "A", "!D", "!A", "-D", "-A", "D+1", "A+1", "D-1",
            "A-1", "D+A", "D-A", "A-D", "D&A", "D|A", "M", "!M", "-M", "M+1", "M-1",
            "D+M", "D-M", "M-D", "D&M", "D|M"} |->
        CASE m = "0"   -> "0101010000000" [] m = "1"   -> "0111111000000"
          [] m = "-1"  -> "0111010000000" [] m = "D"   -> "0001100000000"
          [] m = "A"   -> "0110000000000" [] m = "!D"  -> "0001101000000"
          [] m = "!A"  -> "0110001000000" [] m = "-D"  -> "0001111000000"
          [] m = "-A"  -> "0110011000000" [] m = "D+1" -> "0011111000000"
          [] m = "A+1" -> "0110111000000" [] m = "D-1" -> "0001110000000"
          [] m = "A-1" -> "0110010000000" [] m = "D+A" -> "0000010000000"
          [] m = "D-A" -> "0010011000000" [] m = "A-D" -> "0000111000000"
          [] m = "D&A" -> "0000000000000" [] m = "D|A" -> "0010101000000"
          [] m = "M"   -> "1110000000000" [] m = "!M"  -> "1110001000000"
          [] m = "-M"  -> "1110011000000" [] m = "M+1" -> "1110111000000"
          [] m = "M-1" -> "1110010000000" [] m = "D+M" -> "1000010000000"
          [] m = "D-M" -> "1010011000000" [] m = "M-D" -> "1000111000000"
          [] m = "D&M" -> "1000000000000" [] m = "D|M" -> "1010101000000"]

check_jump ==
    [m \in {"null", "JGT", "JEQ", "JGE", "JLT", "JNE", "JLE", "JMP"} |->
        CASE m = "null" -> "000" [] m = "JGT" -> "001" [] m = "JEQ" -> "010"
          [] m = "JGE"  -> "011" [] m = "JLT" -> "100" [] m = "JNE" -> "101"
          [] m = "JLE"  -> "110" [] m = "JMP" -> "111"]

----------------------------------------------------------------------------
(* A second run over the same input.  run owns everything it works on: the   *)
(* parser (with its symbol table and reader) and the output file are created *)
(* in run and dropped at its return.                                         *)

\* What a run that has returned leaves to observe: how it ended, the words in
\* the output file, and the line it stopped at.
Outcome ==
    [ok |-> pc = "Complete", val |-> out, err |-> err, raw_line |-> raw_line,
     reader |-> reader]

\* A second run that goes on with the parser of the first.
RunAgainWithOldParser ==
    /\ pc \in {"Complete", "Failed"}
    /\ ret' = [op |-> "run", arg |-> file, res |-> Outcome]
    /\ pc' = "Initial"
    /\ reader' = reset(reader)
    /\ raw_line' = ""
    /\ command' = None
    /\ out' = <<>>
    /\ err' = ""
    /\ UNCHANGED <<file, symbol_table>>

\* run has returned and is called again with the same Config: Parser::new and
\* File::create make a new parser and an empty output file.
RunAgain ==
    /\ pc \in {"Complete", "Failed"}
    /\ ret' = [op |-> "run", arg |-> file, res |-> Outcome]
    /\ pc' = "Initial"
    /\ reader' = ReaderNew
    /\ raw_line' = ""
    /\ command' = None
    /\ symbol_table' = SymbolTableNew
    /\ out' = <<>>
    /\ err' = ""
    /\ UNCHANGED file

NextTwice == StartRun \/ FirstPassStep \/ Reset \/ SecondPassStep \/ RunAgain

SpecTwice == Init /\ [][NextTwice]_vars

----------------------------------------------------------------------------
(* Runs over address instructions: literals at the ends of the 15-bit and    *)
(* the 16-bit range and past them, one with leading zeros, predefined        *)
(* symbols, a label and its use, and two variables.                          *)
LitChunks ==
    { "@0\n", "@007\n", "@32767\n", "@32768\n", "@65535\n", "@65536\n",
      "@R1\n", "@SCREEN\n", "@LOOP\n", "(LOOP)\n", "@i\n", "@j\n" }

MaxLitLines == 2

LitFiles == {Concat(p) : p \in UNION {[1..n -> LitChunks] : n \in 0..MaxLitLines}}

InitLit ==
    /\ file \in LitFiles
    /\ pc = "Initial"
    /\ ParserInit
    /\ out = <<>>
    /\ err = ""
    /\ ret = RetNew

SpecLit == InitLit /\ [][Next]_vars

----------------------------------------------------------------------------
(* The parser on its own: advance over one line, then the accessors, as the  *)
(* tests of parser.rs call them.                                             *)

\* What a line holds between the white space before it and the comment or line
\* end after it: nothing, address instructions, labels, compute instructions of
\* the three shapes, and texts that are nearly one of these.
Bodies ==
    { "", "@", "@i", "@12", "@a b", "@x=1", "@a-b",
      "(LOOP)", "(a.b$c_1)", "(12)", "()", "(a-b)", "(a b)", "(X", "X)", "(X);JMP",
      "D=A", "0;JMP", "AM=M-1;JNE", "d=q", "D|M;x",
      "D", "foo", "D=", "=A", "D=A;", "D;", ";JMP", "M1=A", "D=A+2", "D=A;J1",
      "D=A=M", "D;JGT;JMP", "D = A", "D=A / x" }

Before == {"", "  ", "\t"}

After == {"\n", "", " // c\n", "//(X)\n", "\r\n"}

ParseFiles == {b \o m \o a : b \in Before, m \in Bodies, a \in After}

ParserAdvance ==
    /\ pc = "Initial"
    /\ LET a == advance(reader)
       IN  /\ reader' = a.reader
           /\ raw_line' = a.raw_line
           /\ command' = a.command
           /\ ret' = [op |-> "advance", arg |-> a.raw_line, res |-> a.res]
    /\ UNCHANGED <<file, pc, symbol_table, out, err>>

ParserSymbol ==
    /\ pc = "Initial"
    /\ ret' = [op |-> "symbol", arg |-> raw_line, res |-> symbol(command)]
    /\ UNCHANGED <<file, pc, reader, raw_line, command, symbol_table, out, err>>

ParserDest ==
    /\ pc = "Initial"
    /\ ret' = [op |-> "dest", arg |-> raw_line, res |-> parser_dest(command)]
    /\ UNCHANGED <<file, pc, reader, raw_line, command, symbol_table, out, err>>

ParserComp ==
    /\ pc = "Initial"
    /\ ret' = [op |-> "comp", arg |-> raw_line, res |-> parser_comp(command)]
    /\ UNCHANGED <<file, pc, reader, raw_line, command, symbol_table, out, err>>

ParserJump ==
    /\ pc = "Initial"
    /\ ret' = [op |-> "jump", arg |-> raw_line, res |-> parser_jump(command)]
    /\ UNCHANGED <<file, pc, reader, raw_line, command, symbol_table, out, err>>

InitParse ==
    /\ file \in ParseFiles
    /\ pc = "Initial"
    /\ ParserInit
    /\ out = <<>>
    /\ err = ""
    /\ ret = RetNew

NextParse == ParserAdvance \/ ParserSymbol \/ ParserDest \/ ParserComp \/ ParserJump

SpecParse == InitParse /\ [][NextParse]_vars

----------------------------------------------------------------------------
(* Runs over the Add program (add of tests/integration_tests.rs) in the      *)
(* layouts a source file may have: with or without a comment header and a    *)
(* blank line, indented or not, with trailing comments, with either line end. *)
AddLines == <<"@2", "D=A", "@3", "D=D+A", "@0", "M=D">>

RECURSIVE Layout(_, _, _, _)
Layout(lines, indent, trail, eol) ==
    IF lines = <<>> THEN ""
    ELSE indent \o Head(lines) \o trail \o eol \o Layout(Tail(lines), indent, trail, eol)

AddFiles ==
    {h \o Layout(AddLines, indent, trail, eol) :
        h \in {"", "// Computes R0 = 2 + 3\n\n"}, indent \in {"", "    "},
        trail \in {"", " // x"}, eol \in {"\n", "\r\n"}}

InitAdd ==
    /\ file \in AddFiles
    /\ pc = "Initial"
    /\ ParserInit
    /\ out = <<>>
    /\ err = ""
    /\ ret = RetNew

SpecAdd == InitAdd /\ [][Next]_vars

----------------------------------------------------------------------------
(* config.rs and main.rs: the arguments of the command, checked before run.  *)

EndsWith(s, suffix) ==
    Len(suffix) <= Len(s) /\ SubSeq(s, Len(s) - Len(suffix) + 1, Len(s)) = suffix

\* Config::new that asks for both arguments before it looks at either.
ConfigNewCountingFirst(args) ==
    IF Len(args) < 2 THEN Err("MissingArguments")
    ELSE IF Len(args) < 3 THEN Err("MissingOutputFilename")
    ELSE IF ~EndsWith(args[2], ".asm") THEN Err("InvalidInFileExt")
    ELSE IF ~EndsWith(args[3], ".hack") THEN Err("InvalidOutFileExt")
    ELSE [ok |-> TRUE, val |-> [infile |-> args[2], outfile |-> args[3]], err |-> ""]

\* Config::new: args[1] is the path of the executable; the regexes \.asm$ and
\* \.hack$ match a text that ends with the extension.
ConfigNew(args) ==
    IF Len(args) < 2 THEN Err("MissingArguments")
    ELSE IF ~EndsWith(args[2], ".asm") THEN Err("InvalidInFileExt")
    ELSE IF Len(args) < 3 THEN Err("MissingOutputFilename")
    ELSE IF ~EndsWith(args[3], ".hack") THEN Err("InvalidOutFileExt")
    ELSE [ok |-> TRUE, val |-> [infile |-> args[2], outfile |-> args[3]], err |-> ""]

\* main that calls run whatever Config::new returned.
MainRunningAnyway ==
    /\ pc = "Main"
    /\ ret' = [op |-> "Config::new", arg |-> ret.arg, res |-> ConfigNew(ret.arg)]
    /\ pc' = "Initial"
    /\ UNCHANGED <<file, reader, raw_line, command, symbol_table, out, err>>

\* main, lines 6-11: Config::new on the arguments; on an error the process
\* exits, otherwise run is called (StartRun and the steps after it).
Main ==
    /\ pc = "Main"
    /\ ret' = [op |-> "Config::new", arg |-> ret.arg, res |-> ConfigNew(ret.arg)]
    /\ IF ConfigNew(ret.arg).ok
       THEN pc' = "Initial" /\ UNCHANGED err
       ELSE pc' = "Exited" /\ err' = ConfigNew(ret.arg).err
    /\ UNCHANGED <<file, reader, raw_line, command, symbol_table, out>>

\* The arguments after the path of the executable: none to three of these.
Paths == {"a.asm", "b.hack", "a.txt", "asm", ".asm", ".hack", "a.ASM", "a.asm.hack", "b.hack.asm", ""}

MaxArgs == 3

ArgLists == {<<"assembler">> \o p : p \in UNION {[1..n -> Paths] : n \in 0..MaxArgs}}

InitMain ==
    /\ file = "@2\nD=A\n"
    /\ pc = "Main"
    /\ ParserInit
    /\ out = <<>>
    /\ err = ""
    /\ ret \in {[op |-> "exec", arg |-> a, res |-> Ok(0)] : a \in ArgLists \cup {<<>>}}

NextMain == Main \/ StartRun \/ FirstPassStep \/ Reset \/ SecondPassStep

SpecMain == InitMain /\ [][NextMain]_vars

----------------------------------------------------------------------------
(* advance and reset in any order over files of several lines (as in         *)
(* check_reset).                                                             *)
ResetChunks == {"@1\n", "(L)\n", "D=A\n", "\n"}

ResetFiles == {Concat(p) : p \in UNION {[1..n -> ResetChunks] : n \in 0..MaxLines}}

ParserReset ==
    /\ pc = "Initial"
    /\ reader' = reset(reader)
    /\ raw_line' = ""
    /\ command' = None
    /\ ret' = [op |-> "reset", arg |-> "", res |-> Ok(0)]
    /\ UNCHANGED <<file, pc, symbol_table, out, err>>

InitReset ==
    /\ file \in ResetFiles
    /\ pc = "Initial"
    /\ ParserInit
    /\ out = <<>>
    /\ err = ""
    /\ ret = RetNew

NextReset == ParserAdvance \/ ParserReset

SpecReset == InitReset /\ [][NextReset]_vars

----------------------------------------------------------------------------
(* A run on a parser whose instruction counter was advanced before, by direct *)
(* calls of inc_rom_address (as process_l_cmd does once for each instruction  *)
(* of a long program), at most MaxRomIncs times (short of the u16 overflow).  *)
RomFiles == {"(END)\n@END\n"}

MaxRomIncs == 32768

IncRomBelowOverflow == symbol_table.rom_address < MaxRomIncs /\ IncRomAddress

InitRom ==
    /\ file \in RomFiles
    /\ pc = "Initial"
    /\ ParserInit
    /\ out = <<>>
    /\ err = ""
    /\ ret = RetNew

NextRom == IncRomBelowOverflow \/ StartRun \/ FirstPassStep \/ Reset \/ SecondPassStep

SpecRom == InitRom /\ [][NextRom]_vars

----------------------------------------------------------------------------
(* The run as the one thread of the process executes it: run calls           *)
(* first_pass, reset and second_pass one after the other, and a loop takes    *)
(* its next turn as long as the pass has not ended; nothing else is scheduled *)
(* and a read of a regular file does not block.  So each of the four actions  *)
(* is weakly fair.                                                            *)

\* Sources of blank lines, comment lines, instructions and lines with errors.
LiveChunks == {"@i\n", "(LOOP)\n", " // c\n", "\n", "D=A\n", "D=Q\n", "foo\n"}

LiveFiles == {Concat(p) : p \in UNION {[1..n -> LiveChunks] : n \in 0..MaxLines}}

InitLive ==
    /\ file \in LiveFiles
    /\ pc = "Initial"
    /\ ParserInit
    /\ out = <<>>
    /\ err = ""
    /\ ret = RetNew

\* WF_vars(A) for a turn A of a loop, with ENABLED <<A>>_vars written as the
\* guard of A: a turn is possible in every state of its pass (the IF of the
\* action has an arm for each result of advance) and each turn changes the
\* reader or ends the pass.
FirstPassFair == []<>(pc # "Pass1Scanning") \/ []<><<FirstPassStep>>_vars

SecondPassFair == []<>(pc # "Pass2Translating") \/ []<><<SecondPassStep>>_vars

SpecLive ==
    /\ InitLive /\ [][Next]_vars
    /\ WF_vars(StartRun) /\ FirstPassFair /\ WF_vars(Reset) /\ SecondPassFair

----------------------------------------------------------------------------
(* Runs over sources that declare and use symbols: a label, a label with the  *)
(* name of a predefined symbol, uses of both, variables, an instruction.      *)
SymChunks == {"(LOOP)\n", "(R1)\n", "@LOOP\n", "@R1\n", "@i\n", "@j\n", "D=A\n"}

SymFiles == {Concat(p) : p \in UNION {[1..n -> SymChunks] : n \in 0..MaxLines}}

InitSym ==
    /\ file \in SymFiles
    /\ pc = "Initial"
    /\ ParserInit
    /\ out = <<>>
    /\ err = ""
    /\ ret = RetNew

SpecSym == InitSym /\ [][Next]_vars

\* The strings the tables are called with: every mnemonic of the three sets, and
\* strings of none of them (another case, another order, white space, nothing).
Mnemonics ==
    DOMAIN check_dest \cup DOMAIN check_comp \cup DOMAIN check_jump
    \cup {"", "m", "amd", "DM", "MA", "Null", "NULL", "jmp", "Jmp", "JXX",
          "1+D", "D+D", "d+1", "M ", " M", "AERTGwed"}

CallDest(m) ==
    /\ pc = "Initial"
    /\ ret' = [op |-> "dest", arg |-> m, res |-> dest(m)]
    /\ UNCHANGED <<file, pc, reader, raw_line, command, symbol_table, out, err>>

CallComp(m) ==
    /\ pc = "Initial"
    /\ ret' = [op |-> "comp", arg |-> m, res |-> comp(m)]
    /\ UNCHANGED <<file, pc, reader, raw_line, command, symbol_table, out, err>>

CallJump(m) ==
    /\ pc = "Initial"
    /\ ret' = [op |-> "jump", arg |-> m, res |-> jump(m)]
    /\ UNCHANGED <<file, pc, reader, raw_line, command, symbol_table, out, err>>

NextCode ==
    \/ \E m \in Mnemonics : CallDest(m)
    \/ \E m \in Mnemonics : CallComp(m)
    \/ \E m \in Mnemonics : CallJump(m)

SpecCode == InitTable /\ [][NextCode]_vars

\* The text of a compute instruction; "" is a field that is absent.
CText(d, k, j) ==
    (IF d = "" THEN "" ELSE d \o "=") \o k \o (IF j = "" THEN "" ELSE ";" \o j) \o "\n"

\* A file for every compute instruction of the three shapes with valid mnemonics.
CFiles ==
    {CText(d, k, j) : d \in DOMAIN check_dest \cup {""}, k \in DOMAIN check_comp,
                      j \in DOMAIN check_jump \cup {""}}
    \ {k \o "\n" : k \in DOMAIN check_comp}

InitC ==
    /\ file \in CFiles
    /\ pc = "Initial"
    /\ ParserInit
    /\ out = <<>>
    /\ err = ""
    /\ ret = RetNew

SpecC == InitC /\ [][Next]_vars

----------------------------------------------------------------------------
(* The accessors of the parser over compute instructions: every one with     *)
(* valid mnemonics, and some whose fields are no mnemonics.                  *)
FieldFiles ==
    CFiles \cup {"d=q\n", "D|M;x\n", "ADM=1+D;jmp\n", "  M=-1 // c\n", "0;JMP"}

InitFields ==
    /\ file \in FieldFiles
    /\ pc = "Initial"
    /\ ParserInit
    /\ out = <<>>
    /\ err = ""
    /\ ret = RetNew

SpecFields == InitFields /\ [][NextParse]_vars

----------------------------------------------------------------------------
(* What the claims speak of: the lines of the source and what they hold. *)

\* The lines of a text, each with the line feed that ends it.
RECURSIVE SrcLines(_)
SrcLines(f) ==
    IF f = "" THEN <<>>
    ELSE LET nl == Find(f, "\n")
         IN  IF nl = 0 THEN <<f>>
             ELSE <<SubSeq(f, 1, nl)>> \o SrcLines(SubSeq(f, nl + 1, Len(f)))

\* The lines the current pass has read so far.
LinesRead == SrcLines(SubSeq(file, 1, reader.fpos - Len(reader.buf)))

\* What the classifier makes of a line.
TypeOf(line) == set_command(line).command.type

IsInstruction(line) == TypeOf(line) \in {"ACommand", "CCommand"}

\* The name an address instruction or a label line carries.
NameOf(line) == symbol(set_command(line).command).val

\* The number of address and compute instructions among the first n lines of L.
InstructionsIn(L, n) == Cardinality({k \in 1..n : IsInstruction(L[k])})

\* The lines of L that declare the label name.
Declares(L, name) == {k \in 1..Len(L) : TypeOf(L[k]) = "LCommand" /\ NameOf(L[k]) = name}

\* An address instruction whose operand is a decimal literal.
IsLiteral(line) == TypeOf(line) = "ACommand" /\ ParseU16(NameOf(line)) # -1

\* An address instruction whose operand is a symbol.
IsSymbolic(line) == TypeOf(line) = "ACommand" /\ ParseU16(NameOf(line)) = -1

InPassTwo == pc \in {"Pass2Translating", "Complete"}

AfterPassOne == pc \in {"Pass1Done", "Pass2Translating", "Complete"}

----------------------------------------------------------------------------
(* C1.  During and after pass one, the instruction counter equals the number *)
(* of address and compute instructions read (a label line, a comment line or *)
(* a blank line does not advance it, an instruction advances it by one), and *)
(* every label read is stored with the number of address and compute         *)
(* instructions that precede its line.                                       *)
C1_LabelAddresses ==
    /\ pc = "Pass1Scanning" =>
         LET L == LinesRead
         IN  /\ symbol_table.rom_address = InstructionsIn(L, Len(L))
             /\ \A k \in 1..Len(L) : TypeOf(L[k]) = "LCommand" =>
                  /\ NameOf(L[k]) \in DOMAIN symbol_table.table
                  /\ symbol_table.table[NameOf(L[k])] = InstructionsIn(L, k - 1)
    /\ AfterPassOne =>
         LET L == SrcLines(file)
         IN  /\ symbol_table.rom_address = InstructionsIn(L, Len(L))
             /\ \A k \in 1..Len(L) : TypeOf(L[k]) = "LCommand" =>
                  /\ NameOf(L[k]) \in DOMAIN symbol_table.table
                  /\ symbol_table.table[NameOf(L[k])] = InstructionsIn(L, k - 1)

\* Pass one is over a source with an instruction, a comment line and then a
\* label: the label has the address 1.
C1_Witness ==
    /\ pc = "Pass1Done"
    /\ LET L == SrcLines(file)
       IN  \E k \in 1..Len(L) :
             /\ TypeOf(L[k]) = "LCommand"
             /\ InstructionsIn(L, k - 1) = 1
             /\ symbol_table.table[NameOf(L[k])] = 1
             /\ \E n \in 1..(k - 1) : TypeOf(L[n]) = "None"

----------------------------------------------------------------------------
(* C2.  In pass two, an address instruction whose operand is a symbol that a *)
(* label line of the source declares, before or after it, writes the address *)
(* of that label (the number of address and compute instructions before the  *)
(* label line), the run goes on, and the symbol table, the variable counter  *)
(* included, stays as it is: no variable is allocated.                       *)
C2_LabelBeforeVariable ==
    [][ (/\ pc = "Pass2Translating"
         /\ IsSymbolic(raw_line')
         /\ Declares(SrcLines(file), NameOf(raw_line')) # {})
        => LET L == SrcLines(file)
               k == CHOOSE k \in Declares(L, NameOf(raw_line')) : TRUE
           IN  /\ pc' = "Pass2Translating"
               /\ out' = Append(out, Format016b(InstructionsIn(L, k - 1)))
               /\ symbol_table' = symbol_table ]_vars

\* Pass two has just written the word of an address instruction whose symbol is
\* declared as a label further down, after at least one instruction.
C2_Witness ==
    /\ pc = "Pass2Translating"
    /\ IsSymbolic(raw_line)
    /\ LET L == SrcLines(file)
       IN  \E k \in Declares(L, NameOf(raw_line)) :
             /\ k > Len(LinesRead)
             /\ InstructionsIn(L, k - 1) >= 2
             /\ Len(out) >= 1
             /\ out[Len(out)] = Format016b(InstructionsIn(L, k - 1))

----------------------------------------------------------------------------
(* C3.  In pass two, the k-th distinct symbol that an address instruction     *)
(* read so far refers to and that is neither predefined nor a label is in the *)
(* table with the address 15 + k, the variable counter is 16 plus the number  *)
(* of these symbols, every reference to such a symbol wrote the word of its   *)
(* address, and no two variables share an address.                            *)

\* An address instruction whose symbol is neither predefined nor a label.
IsVariableUse(line) ==
    /\ IsSymbolic(line)
    /\ NameOf(line) \notin DOMAIN predefined_symbols
    /\ Declares(SrcLines(file), NameOf(line)) = {}

Range(q) == {q[i] : i \in 1..Len(q)}

\* The variables the first n lines of L refer to, in the order of first reference.
RECURSIVE VarsIn(_, _)
VarsIn(L, n) ==
    IF n = 0 THEN <<>>
    ELSE LET prev == VarsIn(L, n - 1)
         IN  IF IsVariableUse(L[n]) /\ NameOf(L[n]) \notin Range(prev)
             THEN Append(prev, NameOf(L[n]))
             ELSE prev

C3_VariableAddresses ==
    InPassTwo =>
        LET L == LinesRead
            V == VarsIn(L, Len(L))
            T == symbol_table.table
        IN  /\ \A k \in 1..Len(V) : V[k] \in DOMAIN T /\ T[V[k]] = 15 + k
            /\ symbol_table.ram_address = 16 + Len(V)
            /\ \A i \in 1..Len(L) : IsVariableUse(L[i]) =>
                 /\ InstructionsIn(L, i) <= Len(out)
                 /\ out[InstructionsIn(L, i)] = Format016b(T[NameOf(L[i])])
            /\ \A a, b \in Range(V) : a # b => T[a] # T[b]

\* A run that ends with two variables, one of them referred to twice.
C3_Witness ==
    /\ pc = "Complete"
    /\ LET L == SrcLines(file)
       IN  /\ Len(VarsIn(L, Len(L))) = 2
           /\ \E i, j \in 1..Len(L) :
                i < j /\ IsVariableUse(L[i]) /\ IsVariableUse(L[j]) /\ NameOf(L[i]) = NameOf(L[j])
           /\ symbol_table.ram_address = 18

----------------------------------------------------------------------------
(* C4.  A run fails with RAMFull only for a variable that needs an address    *)
(* above 16383: whenever a run has failed with RAMFull, the variable counter, *)
(* which is the address the failing variable needed, is above 16383 (the      *)
(* variable that needs 16383 is allocated and its word written).              *)
C4_RamFullOnlyAboveTop ==
    (pc = "Failed" /\ err = "RAMFull") => symbol_table.ram_address > RamTop

----------------------------------------------------------------------------
(* C5.  insert_label or insert_variable of a name that is in the table fails  *)
(* with SymbolExists and leaves the table and both counters as they are; no   *)
(* call changes or removes the address of an entry that exists.               *)
C5_InsertNeverOverwrites ==
    [][ /\ (/\ ret'.op \in {"insert_label", "insert_variable"}
            /\ ret'.arg \in DOMAIN symbol_table.table)
           => (ret'.res = Err("SymbolExists") /\ symbol_table' = symbol_table)
        /\ \A n \in DOMAIN symbol_table.table :
             /\ n \in DOMAIN symbol_table'.table
             /\ symbol_table'.table[n] = symbol_table.table[n] ]_vars

\* A second insertion of a name that was inserted after both counters had
\* advanced has just failed.
C5_Witness ==
    /\ ret.op \in {"insert_label", "insert_variable"}
    /\ ret.res = Err("SymbolExists")
    /\ ret.arg \notin DOMAIN predefined_symbols
    /\ symbol_table.ram_address > 16
    /\ symbol_table.rom_address > 0
    /\ symbol_table.table[ret.arg] \notin {symbol_table.ram_address, symbol_table.rom_address}

----------------------------------------------------------------------------
(* C6.  A new symbol table holds R0..R15 at 0..15, SP, LCL, ARG, THIS, THAT   *)
(* at 0..4, SCREEN at 16384 and KBD at 24576 and nothing else, with the       *)
(* variable counter at 16 and the instruction counter at 0; after any calls   *)
(* of get_address, insert_label, insert_variable and the counter advances     *)
(* each of these entries is in the table with that address.                   *)
C6_PredefinedSymbols ==
    LET T == symbol_table.table
    IN  /\ \A i \in 0..15 :
             ("R" \o ToString(i)) \in DOMAIN T /\ T["R" \o ToString(i)] = i
        /\ {"SP", "LCL", "ARG", "THIS", "THAT", "SCREEN", "KBD"} \subseteq DOMAIN T
        /\ T["SP"] = 0 /\ T["LCL"] = 1 /\ T["ARG"] = 2 /\ T["THIS"] = 3 /\ T["THAT"] = 4
        /\ T["SCREEN"] = 16384 /\ T["KBD"] = 24576
        /\ ret.op = "new" =>
             /\ Cardinality(DOMAIN T) = 23
             /\ symbol_table.ram_address = 16
             /\ symbol_table.rom_address = 0

\* Both counters have advanced, two names were added, and an insertion of the
\* predefined KBD has just been refused.
C6_Witness ==
    /\ ret.op \in {"insert_label", "insert_variable"}
    /\ ret.arg = "KBD"
    /\ ~ret.res.ok
    /\ symbol_table.ram_address > 16
    /\ symbol_table.rom_address > 0
    /\ Cardinality(DOMAIN symbol_table.table) = 25

----------------------------------------------------------------------------
(* C7.  A run goes Initial, Pass1Scanning, Pass1Done, Pass2Translating,       *)
(* Complete and never back (or ends in Failed from one of the passes); no     *)
(* word is written before pass two; pass one is done only with the input read *)
(* to its end; the reset leaves the line source at its start, and the first   *)
(* line pass two reads from there is the first line of the file.              *)
FirstLine == IF file = "" THEN "" ELSE SrcLines(file)[1]

C7_PassOrder ==
    [][ /\ <<pc, pc'>> \in
             { <<"Initial", "Pass1Scanning">>,
               <<"Pass1Scanning", "Pass1Scanning">>, <<"Pass1Scanning", "Pass1Done">>,
               <<"Pass1Scanning", "Failed">>,
               <<"Pass1Done", "Pass2Translating">>,
               <<"Pass2Translating", "Pass2Translating">>,
               <<"Pass2Translating", "Complete">>, <<"Pass2Translating", "Failed">> }
        /\ pc \in {"Initial", "Pass1Scanning", "Pass1Done"} => out' = <<>>
        /\ pc' = "Pass1Done" =>
             raw_line' = "" /\ reader'.buf = "" /\ reader'.fpos = Len(file)
        /\ pc = "Pass1Done" => reader'.fpos = 0 /\ reader'.buf = ""
        /\ (pc = "Pass2Translating" /\ reader.fpos = 0 /\ reader.buf = "")
             => raw_line' = FirstLine ]_vars

\* Pass two has read the first of several lines and written its word.
C7_Witness ==
    /\ pc = "Pass2Translating"
    /\ Len(SrcLines(file)) >= 2
    /\ Len(LinesRead) = 1
    /\ raw_line = FirstLine
    /\ Len(out) = 1

----------------------------------------------------------------------------
(* C8.  In pass two a line that is an address or compute instruction and is   *)
(* translated appends one word of sixteen binary digits to the output (a      *)
(* compute instruction one that starts with 111, a literal address its        *)
(* value); every other step leaves the output as it is; a run that completes  *)
(* has written as many words as the source has address and compute            *)
(* instructions.                                                              *)
C8_OneWordPerInstruction ==
    [][ /\ IF pc = "Pass2Translating" /\ pc' # "Failed" /\ IsInstruction(raw_line')
           THEN /\ Len(out') = Len(out) + 1
                /\ SubSeq(out', 1, Len(out)) = out
                /\ Len(out'[Len(out')]) = 16
                /\ AllIn(out'[Len(out')], {"0", "1"})
                /\ TypeOf(raw_line') = "CCommand" => SubSeq(out'[Len(out')], 1, 3) = "111"
                /\ IsLiteral(raw_line') =>
                     out'[Len(out')] = Format016b(ParseU16(NameOf(raw_line')))
           ELSE out' = out
        /\ pc' = "Complete" =>
             Len(out') = InstructionsIn(SrcLines(file), Len(SrcLines(file))) ]_vars

\* A run over an instruction, a label and a line without instruction is
\* complete, with one word written.
C8_Witness ==
    /\ pc = "Complete"
    /\ Len(out) = 1
    /\ LET L == SrcLines(file)
       IN  /\ \E k \in 1..Len(L) : TypeOf(L[k]) = "LCommand"
           /\ \E k \in 1..Len(L) : TypeOf(L[k]) = "None"

----------------------------------------------------------------------------
(* C9.  A compute instruction with valid mnemonics is translated, and its     *)
(* word is 111, then the seven digits of the comp pattern, the three of the   *)
(* dest pattern (000 without a dest) and the three of the jump pattern (000   *)
(* without a jump); the opcode and the three placed fields share no bit, so   *)
(* their sum is their bitwise OR and is below 2^16.                           *)
RECURSIVE BinValue(_)
BinValue(s) ==
    IF s = "" THEN 0
    ELSE 2 * BinValue(SubSeq(s, 1, Len(s) - 1)) + (IF Char(s, Len(s)) = "1" THEN 1 ELSE 0)

RECURSIVE BitOr(_, _)
BitOr(a, b) ==
    IF a = 0 THEN b
    ELSE IF b = 0 THEN a
    ELSE 2 * BitOr(a \div 2, b \div 2) + (IF a % 2 = 1 \/ b % 2 = 1 THEN 1 ELSE 0)

RECURSIVE BitAnd(_, _)
BitAnd(a, b) ==
    IF a = 0 \/ b = 0 THEN 0
    ELSE 2 * BitAnd(a \div 2, b \div 2) + (IF a % 2 = 1 /\ b % 2 = 1 THEN 1 ELSE 0)

StartsWith(s, prefix) == Len(prefix) <= Len(s) /\ SubSeq(s, 1, Len(prefix)) = prefix

DestText(d) == IF d = "" THEN "" ELSE d \o "="

C9_ComputeWordLayout ==
    /\ pc # "Failed"
    /\ \A d \in DOMAIN check_dest \cup {""} : StartsWith(file, DestText(d)) =>
       \A k \in DOMAIN check_comp : StartsWith(file, DestText(d) \o k) =>
       \A j \in DOMAIN check_jump \cup {""} : file = CText(d, k, j) =>
              LET op == 57344
                  dv == IF d = "" THEN 0 ELSE dest(d).val
                  kv == comp(k).val
                  jv == IF j = "" THEN 0 ELSE jump(j).val
              IN  /\ BitAnd(op, kv) = 0 /\ BitAnd(op + kv, dv) = 0
                  /\ BitAnd(op + kv + dv, jv) = 0
                  /\ op + kv + dv + jv = BitOr(BitOr(BitOr(op, kv), dv), jv)
                  /\ op + kv + dv + jv < U16Modulus
                  /\ pc = "Complete" =>
                       out = << "111" \o SubSeq(check_comp[k], 1, 7)
                                \o (IF d = "" THEN "000" ELSE SubSeq(check_dest[d], 1, 3))
                                \o (IF j = "" THEN "000" ELSE check_jump[j]) >>

\* AMD=D|M;JNE has been translated: every field has bits set.
C9_Witness ==
    /\ file = "AMD=D|M;JNE\n"
    /\ pc = "Complete"
    /\ out = <<"1111010101111101">>

----------------------------------------------------------------------------
----------------------------------------------------------------------------
(* C11.  As stated: dest, comp and jump, called with a string that is none of *)
(* their mnemonics, fail with the kind InvalidMnemonic.                       *)
OutsideSet ==
    \/ ret.op = "dest" /\ ret.arg \notin DOMAIN check_dest
    \/ ret.op = "comp" /\ ret.arg \notin DOMAIN check_comp
    \/ ret.op = "jump" /\ ret.arg \notin DOMAIN check_jump

----------------------------------------------------------------------------
(* C12.  As stated: the encoding of compute instructions is injective, no     *)
(* other compute instruction has the word a run has written for this one.     *)

\* The word of each compute instruction, as a run writes it.
WordOf ==
    [g \in CFiles |-> Format016b(translate_c_cmd(set_command(g).command).val)]

C12_EncodingInjective ==
    (pc = "Complete" /\ file \in CFiles) =>
        \A g \in CFiles : WordOf[g] = out[1] => g = file

\* The mnemonics that a table gives the pattern v.
DecodeDest(v) == {m \in DOMAIN check_dest : dest(m) = Ok(v)}

DecodeComp(v) == {m \in DOMAIN check_comp : comp(m) = Ok(v)}

DecodeJump(v) == {m \in DOMAIN check_jump : jump(m) = Ok(v)}

(* C12, amended.  The fields of the word written for a compute instruction,   *)
(* bits 12-6, 5-3 and 2-0, looked up in comp, dest and jump, give back one    *)
(* mnemonic each: the comp mnemonic of the instruction, and its dest and jump *)
(* mnemonics with null for a field the instruction does not have.             *)
C12_RoundTrip ==
    \A d \in DOMAIN check_dest \cup {""} : StartsWith(file, DestText(d)) =>
    \A k \in DOMAIN check_comp : StartsWith(file, DestText(d) \o k) =>
    \A j \in DOMAIN check_jump \cup {""} : (file = CText(d, k, j) /\ pc = "Complete") =>
        LET w == BinValue(out[1])
        IN  /\ Len(out) = 1
            /\ DecodeComp(((w \div 64) % 128) * 64) = {k}
            /\ DecodeDest(((w \div 8) % 8) * 8) = {IF d = "" THEN "null" ELSE d}
            /\ DecodeJump(w % 8) = {IF j = "" THEN "null" ELSE j}

\* M=D+M;JGT has been translated.
C12_Witness ==
    /\ file = "M=D+M;JGT\n"
    /\ pc = "Complete"
    /\ out = <<"1111000010001001">>

----------------------------------------------------------------------------
----------------------------------------------------------------------------
(* C14.  In pass two, an address instruction whose operand is a decimal       *)
(* literal (one a word can hold) is translated to the word of that value, and *)
(* one whose operand is a symbol the table holds (predefined, a label, a      *)
(* variable of an earlier line) to the word of the address stored for it; in  *)
(* both cases the table and the counters stay as they are.                    *)

\* The text after the @ of an address instruction.
Operand(line) == Tail(set_command(line).command.text)

IsDecimal(s) == s # "" /\ AllIn(s, Digit)

RECURSIVE DecValue(_)
DecValue(s) ==
    IF s = "" THEN 0
    ELSE 10 * DecValue(SubSeq(s, 1, Len(s) - 1)) + DigitValue(Char(s, Len(s)))

C14_LiteralAndKnownSymbol ==
    [][ (pc = "Pass2Translating" /\ TypeOf(raw_line') = "ACommand") =>
          LET name == Operand(raw_line')
          IN  /\ (IsDecimal(name) /\ DecValue(name) <= U16Max) =>
                    /\ pc' = "Pass2Translating"
                    /\ out' = Append(out, Bits(DecValue(name), 16))
                    /\ symbol_table' = symbol_table
              /\ (~IsDecimal(name) /\ name \in DOMAIN symbol_table.table) =>
                    /\ pc' = "Pass2Translating"
                    /\ out' = Append(out, Bits(symbol_table.table[name], 16))
                    /\ symbol_table' = symbol_table ]_vars

\* A literal and a predefined symbol have been translated.
C14_Witness ==
    /\ file = "@32767\n@SCREEN\n"
    /\ pc = "Complete"
    /\ out = <<"0111111111111111", "0100000000000000">>

----------------------------------------------------------------------------
(* C15.  No word written for an address instruction has its first digit (bit  *)
(* 15) set: pass two does not get past an address instruction with a decimal  *)
(* literal above 32767, the run fails there with InvalidSyntax.               *)
AboveRange(line) ==
    /\ TypeOf(line) = "ACommand"
    /\ IsDecimal(Operand(line))
    /\ DecValue(Operand(line)) > 32767

C15_NoBit15ForAddress ==
    /\ \A i \in 1..Len(out) : Head(out[i]) = "0"
    /\ pc \in {"Pass2Translating", "Complete"} =>
           \A k \in 1..Len(LinesRead) : ~AboveRange(LinesRead[k])
    /\ (pc = "Failed" /\ AboveRange(raw_line)) => err = "InvalidSyntax"

----------------------------------------------------------------------------
(* C16.  As stated: advance drops the line from its first // on and trims the *)
(* rest; nothing left is no instruction; a rest that starts with @ is an      *)
(* address instruction; one that starts with ( and ends with ) is a label;    *)
(* any other rest is a compute instruction if it has one of the three shapes  *)
(* with valid characters in every field, and else advance fails with          *)
(* InvalidSyntax.                                                             *)

\* What is left of a line without its comment and the white space around.
Remainder(line) ==
    LET at == Find(line, "//")
    IN  Trim(IF at = 0 THEN line ELSE SubSeq(line, 1, at - 1))

\* dest=comp, comp;jump or dest=comp;jump: letters for dest and jump; letters,
\* 0, 1 and the operators for comp.  No field may hold = or ; so the first of
\* each is the only place to split.
HasShape(s) ==
    LET eq == Find(s, "=")
        sc == Find(s, ";")
    IN  \/ /\ eq > 0 /\ sc = 0
           /\ AllIn(SubSeq(s, 1, eq - 1), Alpha)
           /\ AllIn(SubSeq(s, eq + 1, Len(s)), CompChar)
        \/ /\ eq = 0 /\ sc > 0
           /\ AllIn(SubSeq(s, 1, sc - 1), CompChar)
           /\ AllIn(SubSeq(s, sc + 1, Len(s)), Alpha)
        \/ /\ eq > 0 /\ sc > eq
           /\ AllIn(SubSeq(s, 1, eq - 1), Alpha)
           /\ AllIn(SubSeq(s, eq + 1, sc - 1), CompChar)
           /\ AllIn(SubSeq(s, sc + 1, Len(s)), Alpha)

Parenthesised(s) == Len(s) >= 2 /\ Head(s) = "(" /\ Char(s, Len(s)) = ")"

\* The outcome of advance the classification gives: the command and the error.
Classified(type, s) ==
    /\ command = [type |-> type, text |-> s]
    /\ ret.res.ok

Rejected ==
    /\ command = None
    /\ ~ret.res.ok /\ ret.res.err = "InvalidSyntax"

----------------------------------------------------------------------------
(* C17.  symbol() fails with InvalidCmdType exactly when the current line is  *)
(* a compute instruction or no instruction; dest(), comp() and jump() fail    *)
(* with InvalidCmdType exactly when it is an address instruction, a label or  *)
(* no instruction; after a call of the four the current line is the line the  *)
(* call was made on, the command is the one advance made of it, and the       *)
(* symbol table is as it was.                                                 *)

\* What a line is, by its text.
KindOf(line) ==
    LET s == Remainder(line)
    IN  IF s = "" THEN "None"
        ELSE IF Head(s) = "@" THEN "ACommand"
        ELSE IF Parenthesised(s) /\ AllIn(SubSeq(s, 2, Len(s) - 1), SymbolChar)
             THEN "LCommand"
        ELSE IF HasShape(s) THEN "CCommand"
        ELSE "None"

C17_WrongVariantFails ==
    /\ ret.op = "symbol" =>
         /\ ret.res.ok <=> KindOf(raw_line) \in {"ACommand", "LCommand"}
         /\ ~ret.res.ok => ret.res.err = "InvalidCmdType"
    /\ ret.op \in {"dest", "comp", "jump"} =>
         /\ ret.res.ok <=> KindOf(raw_line) = "CCommand"
         /\ ~ret.res.ok => ret.res.err = "InvalidCmdType"
    /\ ret.op \in {"symbol", "dest", "comp", "jump"} =>
         /\ ret.arg = raw_line
         /\ command.type = KindOf(raw_line)
         /\ command.text = (IF command = None THEN "" ELSE Remainder(raw_line))
         /\ symbol_table = SymbolTableNew

\* symbol() has been called on a compute instruction and has failed.
C17_Witness ==
    /\ raw_line = "D=A\n"
    /\ command.type = "CCommand"
    /\ ret.op = "symbol"
    /\ ~ret.res.ok /\ ret.res.err = "InvalidCmdType"

----------------------------------------------------------------------------
(* C18.  No run ends with InvalidCmdType, and none with the panic of the      *)
(* unwrap in pass one: a run that fails has failed with InvalidSyntax,        *)
(* SymbolExists or RAMFull.                                                   *)
C18_NoInvalidCmdTypeInRun ==
    /\ err \notin {"InvalidCmdType", "panic"}
    /\ pc = "Failed" <=> err \in {"InvalidSyntax", "SymbolExists", "RAMFull"}

\* A run over a label, an address instruction and a compute instruction, which
\* has called symbol() in both passes and dest(), comp() and jump(), is complete.
C18_Witness ==
    /\ file = "(LOOP)\n@LOOP\n0;JMP\n"
    /\ pc = "Complete"
    /\ Len(out) = 2

----------------------------------------------------------------------------
(* C19.  For every line advance takes for an address instruction or a label,  *)
(* symbol() returns the text without the leading @ or without the             *)
(* parentheses around it, and what it returns holds no @ and no parenthesis.  *)
C19_SymbolIsStripped ==
    (ret.op = "symbol" /\ ret.res.ok) =>
        LET s == Remainder(raw_line)
        IN  /\ command.type = "ACommand" => ret.res.val = Tail(s)
            /\ command.type = "LCommand" => ret.res.val = SubSeq(s, 2, Len(s) - 1)
            /\ \A i \in 1..Len(ret.res.val) : Char(ret.res.val, i) \notin {"@", "(", ")"}

----------------------------------------------------------------------------
(* C20.  A pass-two step on a compute instruction with an unknown mnemonic    *)
(* ends the run as failed; the step on which pass two fails writes nothing,   *)
(* so the output holds one word for each address and compute instruction      *)
(* before the failing line and none for that line; and a failed run takes no  *)
(* further step, so nothing is written for a later line.                      *)

\* The fields of the text of a compute instruction; "" for an absent one.
DestOf(s) == IF Find(s, "=") = 0 THEN "" ELSE SubSeq(s, 1, Find(s, "=") - 1)

JumpOf(s) == IF Find(s, ";") = 0 THEN "" ELSE SubSeq(s, Find(s, ";") + 1, Len(s))

CompOf(s) ==
    SubSeq(s, Find(s, "=") + 1, IF Find(s, ";") = 0 THEN Len(s) ELSE Find(s, ";") - 1)

UnknownMnemonic(line) ==
    /\ TypeOf(line) = "CCommand"
    /\ LET s == Remainder(line)
       IN  \/ DestOf(s) \notin DOMAIN check_dest \cup {""}
           \/ CompOf(s) \notin DOMAIN check_comp
           \/ JumpOf(s) \notin DOMAIN check_jump \cup {""}

----------------------------------------------------------------------------
(* C21.  As stated: the run over the Add program writes four words, the first *)
(* 0000000000000010 and the second 1110110000010000.                          *)
C21_AddFourWords ==
    pc = "Complete" =>
        /\ Len(out) = 4
        /\ out[1] = "0000000000000010"
        /\ out[2] = "1110110000010000"

(* C21, amended.  The run over the Add program completes and writes six       *)
(* words, one for each of its six instructions: 0000000000000010, then        *)
(* 1110110000010000 for D=A, then the words of @3, D=D+A, @0 and M=D.         *)
C21_AddSixWords ==
    /\ pc # "Failed"
    /\ pc = "Complete" =>
         out = << "0000000000000010", "1110110000010000", "0000000000000011",
                  "1110000010010000", "0000000000000000", "1110001100001000" >>

\* The run over the six lines alone is complete with six words.
C21_Witness ==
    /\ file = "@2\nD=A\n@3\nD=D+A\n@0\nM=D\n"
    /\ pc = "Complete"
    /\ Len(out) = 6

----------------------------------------------------------------------------
(* C22.  Config::new returns MissingArguments without an input path, else     *)
(* InvalidInFileExt for an input path that does not end in .asm, else         *)
(* MissingOutputFilename without an output path, else InvalidOutFileExt for   *)
(* an output path that does not end in .hack, else the two paths as given;    *)
(* main has exited, and no step of run was taken and nothing written, when    *)
(* Config::new failed, and run is under way only when it succeeded.           *)
HasExt(path, ext) ==
    \E i \in 1..Len(path) : SubSeq(path, i, Len(path)) = ext

C22_ConfigChecks ==
    /\ ret.op = "Config::new" =>
         LET a == ret.arg
         IN  IF Len(a) < 2 THEN ~ret.res.ok /\ ret.res.err = "MissingArguments"
             ELSE IF ~HasExt(a[2], ".asm")
                  THEN ~ret.res.ok /\ ret.res.err = "InvalidInFileExt"
             ELSE IF Len(a) < 3 THEN ~ret.res.ok /\ ret.res.err = "MissingOutputFilename"
             ELSE IF ~HasExt(a[3], ".hack")
                  THEN ~ret.res.ok /\ ret.res.err = "InvalidOutFileExt"
             ELSE /\ ret.res.ok
                  /\ ret.res.val.infile = a[2] /\ ret.res.val.outfile = a[3]
    /\ pc = "Exited" <=> (ret.op = "Config::new" /\ ~ret.res.ok)
    /\ pc = "Exited" =>
         /\ err = ret.res.err
         /\ out = <<>> /\ reader = ReaderNew /\ symbol_table = SymbolTableNew
    /\ pc \notin {"Main", "Exited"} => (ret.op = "Config::new" /\ ret.res.ok)

\* main has exited on an input path with a wrong extension and no output path.
C22_Witness ==
    /\ pc = "Exited"
    /\ ret.arg = <<"assembler", "a.txt">>
    /\ err = "InvalidInFileExt"

----------------------------------------------------------------------------
(* C23.  After reset the raw line is empty and no command is loaded, and the  *)
(* advance that follows a reset returns the first line of the file, however   *)
(* many lines were read before the reset.                                     *)
C23_ResetRewinds ==
    [][ /\ ret'.op = "reset" => (raw_line' = "" /\ command' = None)
        /\ (ret.op = "reset" /\ ret'.op = "advance") =>
              (raw_line' = FirstLine /\ ret'.res = Ok(Len(FirstLine))) ]_vars

----------------------------------------------------------------------------
(* C24.  A step of pass one leaves the table as it is or adds one entry, the  *)
(* name of the label line just read at the instruction counter, and leaves    *)
(* the variable counter alone; the rewind changes nothing of the table; a     *)
(* step of pass two leaves the instruction counter and every entry alone and  *)
(* adds at most one entry: the symbol of the address instruction just read,   *)
(* which the table did not hold, at the variable counter; a step on any other *)
(* line leaves table and counters as they are.                                *)
Entries(st) == {<<n, st.table[n]>> : n \in DOMAIN st.table}

C24_TableGrowth ==
    [][ /\ pc = "Pass1Scanning" =>
             /\ symbol_table'.ram_address = symbol_table.ram_address
             /\ \/ symbol_table'.table = symbol_table.table
                \/ /\ TypeOf(raw_line') = "LCommand"
                   /\ NameOf(raw_line') \notin DOMAIN symbol_table.table
                   /\ Entries(symbol_table') = Entries(symbol_table)
                        \cup {<<NameOf(raw_line'), symbol_table.rom_address>>}
             /\ TypeOf(raw_line') # "LCommand" => symbol_table'.table = symbol_table.table
        /\ pc = "Pass1Done" => symbol_table' = symbol_table
        /\ pc = "Pass2Translating" =>
             /\ symbol_table'.rom_address = symbol_table.rom_address
             /\ IF IsSymbolic(raw_line') /\ NameOf(raw_line') \notin DOMAIN symbol_table.table
                THEN Entries(symbol_table') = Entries(symbol_table)
                        \cup {<<NameOf(raw_line'), symbol_table.ram_address>>}
                ELSE symbol_table' = symbol_table ]_vars

\* A run has added a label in pass one and a variable in pass two.
C24_Witness ==
    /\ file = "@i\n(LOOP)\n@LOOP\n"
    /\ pc = "Complete"
    /\ symbol_table.table["LOOP"] = 1
    /\ symbol_table.table["i"] = 16

----------------------------------------------------------------------------
(* C25.  On a compute instruction dest() returns the text before the = and    *)
(* jump() the text after the ; , each None when the instruction has no such   *)
(* field, and comp() returns the text between them, never None.               *)
FieldResult(text) == IF text = "" THEN None ELSE [type |-> "text", text |-> text]

C25_FieldsOfComputeInstruction ==
    (ret.op \in {"dest", "comp", "jump"} /\ KindOf(raw_line) = "CCommand") =>
        LET s == Remainder(raw_line)
        IN  /\ ret.res.ok
            /\ ret.op = "dest" => ret.res.val = FieldResult(DestOf(s))
            /\ ret.op = "jump" => ret.res.val = FieldResult(JumpOf(s))
            /\ ret.op = "comp" =>
                 ret.res.val # None /\ ret.res.val = FieldResult(CompOf(s))

\* comp() has been called on a compute instruction without dest.
C25_Witness ==
    /\ raw_line = "D|M;JNE\n"
    /\ ret.op = "comp"
    /\ ret.res.ok /\ ret.res.val.text = "D|M"

----------------------------------------------------------------------------
(* C26.  Every address the symbol table holds is in 0 .. 32767, whatever the  *)
(* number of instructions counted before a label is declared.                 *)
C26_AddressesWithin15Bits ==
    \A n \in DOMAIN symbol_table.table :
        symbol_table.table[n] >= 0 /\ symbol_table.table[n] <= 32767

----------------------------------------------------------------------------
(* C28.  The step of pass two that fails with RAMFull leaves the symbol table *)
(* and the variable counter as they were before the step: the symbol that got *)
(* no address is not in the table.                                            *)
C28_RamFullLeavesTable ==
    [][ (pc = "Pass2Translating" /\ pc' = "Failed" /\ err' = "RAMFull") =>
            /\ symbol_table' = symbol_table
            /\ NameOf(raw_line') \notin DOMAIN symbol_table'.table ]_vars

----------------------------------------------------------------------------
(* C27.  A run on a source without errors ends in Complete.  Each pass reads  *)
(* the lines of the source in order, each once: a turn of a pass reads the    *)
(* line after those read so far, and the pass ends (pass one in Pass1Done,    *)
(* pass two in Complete) in the turn where advance reads 0 bytes, which is    *)
(* the turn taken when every line has been read, never at a blank or comment  *)
(* line before that.                                                          *)

\* A source no line of which is an error: every line is blank, a comment or an
\* instruction with known mnemonics, and each label is declared once and is no
\* predefined symbol.
ErrorFree ==
    LET L == SrcLines(file)
    IN  \A k \in 1..Len(L) :
            /\ Remainder(L[k]) # "" => KindOf(L[k]) # "None"
            /\ ~UnknownMnemonic(L[k])
            /\ KindOf(L[k]) = "LCommand" =>
                   /\ Declares(L, NameOf(L[k])) = {k}
                   /\ NameOf(L[k]) \notin DOMAIN SymbolTableNew.table

InAPass == pc \in {"Pass1Scanning", "Pass2Translating"}

C27_PassesReadEveryLine ==
    /\ [][ InAPass =>
            IF LinesRead = SrcLines(file)
            THEN /\ raw_line' = "" /\ LinesRead' = LinesRead
                 /\ pc' = (IF pc = "Pass1Scanning" THEN "Pass1Done" ELSE "Complete")
            ELSE /\ raw_line' = SrcLines(file)[Len(LinesRead) + 1]
                 /\ LinesRead' = Append(LinesRead, raw_line')
                 /\ pc' \in {pc, "Failed"}
                 /\ ErrorFree => pc' = pc ]_vars
    /\ ErrorFree ~> (pc = "Complete")

\* A run over a source with a comment line and a blank line between its
\* instructions has ended in Complete with both instructions translated.
C27_Witness ==
    /\ ErrorFree
    /\ \E k \in 1..Len(SrcLines(file)) :
           /\ Remainder(SrcLines(file)[k]) = ""
           /\ InstructionsIn(SrcLines(file), k - 1) > 0
           /\ InstructionsIn(SrcLines(file), Len(SrcLines(file))) > InstructionsIn(SrcLines(file), k)
    /\ pc = "Complete"
    /\ Len(out) = InstructionsIn(SrcLines(file), Len(SrcLines(file)))

----------------------------------------------------------------------------
(* C29.  Pass one classifies every line it reads: a line that advance rejects *)
(* ends the run there with InvalidSyntax and nothing written.  A run on a     *)
(* source with such a line, wherever the line is, never gets past pass one    *)
(* and never writes a word; a failed run that has written words has no such   *)
(* line, it failed in pass two at a line pass one had accepted.               *)

\* A line that is not blank, not a comment and of no instruction shape.
FailsClassification(line) == Remainder(line) # "" /\ KindOf(line) = "None"

HasSyntaxError == \E k \in 1..Len(SrcLines(file)) : FailsClassification(SrcLines(file)[k])

C29_SyntaxErrorsAbortPassOne ==
    /\ FailsClassification(raw_line) =>
           pc = "Failed" /\ err = "InvalidSyntax" /\ out = <<>>
    /\ HasSyntaxError =>
           pc \in {"Initial", "Pass1Scanning", "Failed"} /\ out = <<>>
    /\ (pc = "Failed" /\ out # <<>>) =>
           /\ ~HasSyntaxError
           /\ KindOf(raw_line) \in {"ACommand", "CCommand"}

\* A run has failed at a line of no instruction shape that follows two
\* instructions, with nothing written.
C29_Witness ==
    /\ pc = "Failed" /\ err = "InvalidSyntax"
    /\ Len(LinesRead) = 3
    /\ InstructionsIn(LinesRead, 2) = 2
    /\ FailsClassification(raw_line)
    /\ out = <<>>

----------------------------------------------------------------------------
(* C30.  A step fails with SymbolExists only in pass one, at a label whose    *)
(* name a line before it has declared or which is a predefined symbol; no     *)
(* step of pass two fails with SymbolExists, and a step of pass two adds a    *)
(* name to the table only if the table did not hold it.                       *)
C30_SymbolExistsOnlyInPassOne ==
    [][ /\ pc = "Pass2Translating" =>
            /\ err' # "SymbolExists"
            /\ symbol_table'.table # symbol_table.table =>
                   NameOf(raw_line') \notin DOMAIN symbol_table.table
        /\ (pc' = "Failed" /\ err' = "SymbolExists") =>
            /\ pc = "Pass1Scanning"
            /\ KindOf(raw_line') = "LCommand"
            /\ \/ NameOf(raw_line') \in DOMAIN SymbolTableNew.table
               \/ Declares(LinesRead, NameOf(raw_line')) # {} ]_vars

\* Pass one has failed with SymbolExists at a label that names a predefined symbol.
C30_Witness ==
    /\ pc = "Failed" /\ err = "SymbolExists"
    /\ raw_line = "(R1)\n"
    /\ Declares(LinesRead, "R1") = {Len(LinesRead)}

====
